---- MODULE Spec2Model ----
(***************************************************************************)
(* Loyalty-points core of the points / QR back end.                        *)
(*                                                                         *)
(*   POST /api/qr/add       bulk issuance of QR tokens  (qr.routes.js)     *)
(*   POST /api/qr/scan      one-time redemption         (qr.routes.js)     *)
(*   POST /api/points/send  peer-to-peer transfer       (points.routes.js) *)
(*   GET  /api/points       balance and history         (points.routes.js) *)
(*                                                                         *)
(* The store is SQLite behind better-sqlite3.  One step of the model is    *)
(* one access of a request to the store: a statement run outside a         *)
(* transaction, or a db.transaction(...) body.  A transaction body is      *)
(* serialised by the store (single writer) and is shown in two steps, its  *)
(* first write and its last write plus COMMIT, so that the uncommitted     *)
(* state in between, and a rollback from it, are visible.                  *)
(***************************************************************************)
EXTENDS Integers, Sequences, FiniteSets, TLC

\* ------------------------------------------------------------------ bounds
NumProcs  == 2    \* requests in flight at the same time
NumUsers  == 2    \* rows of the users table
MaxLedger == 4    \* rows of user_points
MaxCodes  == 2    \* rows of qr_codes
MaxAccounts == 4  \* rows of users after the signups
MaxClock  == 2    \* instants now() returns

\* --------------------------------------------------------- program constants
BASE_POINTS == 50

Procs == 1 .. NumProcs
NULL  == 0            \* SQL NULL of an INTEGER / TEXT column; row ids start at 1

VARIABLES
  users,         \* table users, in insertion order (index = id)
  user_points,   \* table user_points, in insertion order (index = id)
  qr_codes,      \* table qr_codes, in insertion order (index = id)
  clock,         \* the reading of now(); the runs modelled are shorter than its tick
  txn,           \* the open write transaction: its owner and its uncommitted writes
  pc,            \* per request: where its handler stands
  loc,           \* per request: the handler's local constants
  out            \* what the last step answered (res.status(..).json(..)), if anything

vars == <<users, user_points, qr_codes, clock, txn, pc, loc, out>>

\* ------------------------------------------------------------ JSON request values
\* A JSON value of a request body: undefined, an integer number, a number with a
\* fraction, or a string.  n is the numeric reading (Number(x)), s the text.
JUndef      == [t |-> "undef", n |-> 0, s |-> ""]
JNum(k)     == [t |-> "num",   n |-> k, s |-> ToString(k)]
JFrac(k)    == [t |-> "frac",  n |-> k, s |-> ToString(k) \o ".5"]
JStr(str)   == [t |-> "str",   n |-> 0, s |-> str]
JNumStr(k)  == [t |-> "str",   n |-> k, s |-> ToString(k)]

\* JavaScript truthiness: undefined, 0 and "" are falsy
Truthy(j) ==
  CASE j.t = "undef" -> FALSE
    [] j.t = "num"   -> j.n # 0
    [] j.t = "frac"  -> TRUE
    [] j.t = "str"   -> j.s # ""

\* Number.isInteger(x): a number, without fraction; never a string
IsInteger(j) == j.t = "num"

\* Number(x): numeric strings convert, undefined is NaN
ToNumber(j) ==
  CASE j.t = "undef" -> [t |-> "nan",  n |-> 0]
    [] j.t = "num"   -> [t |-> "num",  n |-> j.n]
    [] j.t = "frac"  -> [t |-> "frac", n |-> j.n]
    [] j.t = "str"   -> IF j.s = ToString(j.n) THEN [t |-> "num", n |-> j.n]
                        ELSE IF j.s = "" THEN [t |-> "num", n |-> 0]
                        ELSE [t |-> "nan", n |-> 0]

\* String.prototype.trim on the texts the requests carry
PadLeft(str)  == " " \o str
Blank         == "  "
Trim(str) ==
  IF str = Blank THEN ""
  ELSE IF \E i \in 1 .. NumUsers + 1 : str = PadLeft("USER000" \o ToString(i))
       THEN CHOOSE c \in {"USER000" \o ToString(i) : i \in 1 .. NumUsers + 1} : str = PadLeft(c)
       ELSE str

\* String(x || '')
StringOrEmpty(j) == IF Truthy(j) THEN j.s ELSE ""

\* ------------------------------------------------------------------ users
\* The users table: id INTEGER PRIMARY KEY AUTOINCREMENT, userCode TEXT UNIQUE.
\* Accounts are created by signup and never deleted.
UserCodeOf(i) == "USER000" \o ToString(i)
\* firstName is NOT NULL and required at signup, lastName defaults to ''.
\* bcrypt.hashSync and bcrypt.compareSync
HashSync(password) == "hash:" \o password
CompareSync(password, hash) == hash = HashSync(password)

EmailOf(i) == "user" \o ToString(i) \o "@example.com"

\* the rows of users when the requests begin
SeedUsers ==
  [i \in 1 .. NumUsers |->
     [id |-> i, userCode |-> UserCodeOf(i),
      firstName |-> "First" \o ToString(i),
      lastName  |-> IF i = 1 THEN "" ELSE "Last" \o ToString(i),
      email |-> EmailOf(i), passwordHash |-> HashSync("secret")]]
NoUser ==
  [id |-> NULL, userCode |-> "", firstName |-> "", lastName |-> "", email |-> "",
   passwordHash |-> ""]

\* a lookup that falls back on the first row
SelectUserOrFirst(code) ==
  IF \E i \in DOMAIN users : users[i].userCode = code
  THEN users[CHOOSE i \in DOMAIN users : users[i].userCode = code]
  ELSE users[1]

\* SELECT id, userCode FROM users WHERE userCode = ?
SelectUserByCode(code) ==
  IF \E i \in DOMAIN users : users[i].userCode = code
  THEN users[CHOOSE i \in DOMAIN users : users[i].userCode = code]
  ELSE NoUser

\* The JWT payload signed at login for user i, which authRequired puts in req.user
JwtPayload(i) == [id |-> users[i].id, code |-> users[i].userCode, role |-> "user"]

\* property access on an object: a missing property reads undefined, which a
\* template string prints as "undefined"
Field(obj, name) == IF name \in DOMAIN obj THEN obj[name] ELSE "undefined"

\* --------------------------------------------------------------- the store
now == clock

NoTxn == [owner |-> 0, rows |-> << >>, qr |-> << >>]

\* what a statement of request p reads: its own uncommitted writes inside its
\* transaction, the committed tables otherwise
PointsSeenDirty(p) == user_points \o txn.rows
PointsSeenBy(p) == IF txn.owner = p THEN user_points \o txn.rows ELSE user_points
QrSeenBy(p)     == IF txn.owner = p THEN txn.qr ELSE qr_codes

RECURSIVE SumPoints(_, _)
\* SELECT COALESCE(SUM(points), 0) FROM user_points WHERE userId = ?
SumPoints(rows, dbUserId) ==
  IF rows = << >> THEN 0
  ELSE (IF Head(rows).userId = dbUserId THEN Head(rows).points ELSE 0)
       + SumPoints(Tail(rows), dbUserId)

getDbPointsTotalZero(rows, dbUserId) == 0
getDbPointsTotal(rows, dbUserId) == SumPoints(rows, dbUserId)

getEffectiveBalanceNoBase(rows, dbUserId) == getDbPointsTotal(rows, dbUserId)
getEffectiveBalance(rows, dbUserId) == BASE_POINTS + getDbPointsTotal(rows, dbUserId)

\* INSERT INTO user_points (userId, points, reason, createdAt) VALUES (?,?,?,?)
\* reason is a template string: a prefix, the text interpolated, a suffix
Reason(prefix, arg, suffix) == [prefix |-> prefix, arg |-> arg, suffix |-> suffix]

PointsRow(userId, points, reason, at) ==
  [userId |-> userId, points |-> points, reason |-> reason, createdAt |-> at]

\* rows of user_points spoken for by the requests that passed their checks
Reserved ==
  Len(user_points)
  + 2 * Cardinality({p \in Procs : pc[p] \in {"send_tx", "send_credit", "old_tx", "old_credit"}})
  + Cardinality({p \in Procs : pc[p] \in {"scan_tx", "scan_upd", "scan_grant"}})

\* --------------------------------------------------------------- answers
NoLoc ==
  [user |-> NULL, ucode |-> "", rid |-> NULL, rcode |-> "", pts |-> 0, bal |-> 0,
   code |-> "", qr |-> NULL]
NoOut == [op |-> "none", status |-> 0, error |-> ""]

\* the handler of request p answers r and returns
Reply(p, r) ==
  /\ pc'  = [pc EXCEPT ![p] = "idle"]
  /\ loc' = [loc EXCEPT ![p] = NoLoc]
  /\ out' = r

Fail(op, status, error) == [op |-> op, status |-> status, error |-> error]

\* the catch block of every handler: console.error and a 500
InternalError(op) == Fail(op, 500, "internal server error")

\* ------------------------------------------------------------------ Init
Init ==
  /\ users = SeedUsers
  /\ user_points = << >>
  /\ qr_codes = << >>
  /\ clock = 1
  /\ txn = NoTxn
  /\ pc = [p \in Procs |-> "idle"]
  /\ loc = [p \in Procs |-> NoLoc]
  /\ out = NoOut

\* ------------------------------------------------- POST /api/points/send
\* the four checks of the body and of the receiver
ValidPointsOrZero(points) == IsInteger(points) /\ points.n >= 0
ValidPointsLoose(points) == IsInteger(points)
ValidPoints(points) == IsInteger(points) /\ points.n > 0

ValidUid(uid) == Truthy(uid) /\ uid.t = "str" /\ Trim(uid.s) # ""

IsSelfNever(receiverDbId, senderDbId) == FALSE
IsSelf(receiverDbId, senderDbId) == receiverDbId = senderDbId

Insufficient(senderBalanceBefore, points) == senderBalanceBefore < points

\* points.routes.js: validation, receiver lookup, self check and the balance
\* check; these read the store outside transferTx.
SendStart(p, u, points, uid) ==
  /\ pc[p] = "idle"
  /\ LET senderDbId == Field(JwtPayload(u), "id")
         senderCode == Field(JwtPayload(u), "userCode")
     IN
     IF ~ValidPoints(points)
     THEN Reply(p, Fail("send", 400, "points must be a positive integer"))
     ELSE IF ~ValidUid(uid)
     THEN Reply(p, Fail("send", 400, "uid (receiver userId) is required"))
     ELSE
       LET receiver == SelectUserByCode(Trim(uid.s)) IN
       IF receiver = NoUser
       THEN Reply(p, Fail("send", 404, "receiver not found for given uid"))
       ELSE IF IsSelf(receiver.id, senderDbId)
       THEN Reply(p, Fail("send", 400, "cannot send points to yourself"))
       ELSE
         LET senderBalanceBefore == getEffectiveBalance(PointsSeenBy(p), senderDbId) IN
         IF Insufficient(senderBalanceBefore, points.n)
         THEN Reply(p, [op |-> "send", status |-> 400, error |-> "insufficient points",
                        senderBalance |-> senderBalanceBefore])
         ELSE
           /\ Reserved + 2 <= MaxLedger
           /\ pc' = [pc EXCEPT ![p] = "send_tx"]
           /\ loc' = [loc EXCEPT ![p] =
                        [NoLoc EXCEPT !.user = senderDbId, !.ucode = senderCode,
                                      !.rid = receiver.id, !.rcode = receiver.userCode,
                                      !.pts = points.n, !.bal = senderBalanceBefore]]
           /\ out' = NoOut
  /\ UNCHANGED <<users, user_points, qr_codes, clock, txn>>

TransferDebitRowFree(l) == PointsRow(l.user, 0, Reason("SEND_TO:", l.rcode, ""), now)

\* transferTx, first statement: BEGIN and the sender's row (negative points)
TransferDebitRow(l) == PointsRow(l.user, -l.pts, Reason("SEND_TO:", l.rcode, ""), now)

TransferCreditRowShort(l) == PointsRow(l.rid, l.pts - 1, Reason("RECEIVE_FROM:", l.ucode, ""), now)
TransferCreditRowNegated(l) == PointsRow(l.rid, -l.pts, Reason("RECEIVE_FROM:", l.ucode, ""), now)

\* transferTx, second statement: the receiver's row (positive points)
TransferCreditRow(l) == PointsRow(l.rid, l.pts, Reason("RECEIVE_FROM:", l.ucode, ""), now)

SendTxDebit(p) ==
  /\ pc[p] = "send_tx"
  /\ txn.owner = 0
  /\ txn' = [owner |-> p, rows |-> <<TransferDebitRow(loc[p])>>, qr |-> qr_codes]
  /\ pc' = [pc EXCEPT ![p] = "send_credit"]
  /\ out' = NoOut
  /\ UNCHANGED <<users, user_points, qr_codes, clock, loc>>

CommitPrepend(rows) == rows \o user_points

\* what COMMIT makes of the two tables
Commit(rows) == user_points \o rows
CommitQrLost(tbl) == qr_codes
CommitQr(tbl) == tbl

\* what ROLLBACK makes of the two tables: better-sqlite3 rolls the transaction
\* back when its function throws
RollbackHalf(rows) == IF rows = << >> THEN user_points ELSE user_points \o <<Head(rows)>>
RollbackKeeps(rows) == user_points \o rows
Rollback(rows) == user_points
RollbackQrKeeps(tbl) == tbl
RollbackQr(tbl) == qr_codes

SendTxCredit(p) ==
  /\ pc[p] = "send_credit"
  /\ txn.owner = p
  /\ user_points' = Commit(txn.rows \o <<TransferCreditRow(loc[p])>>)
  /\ txn' = NoTxn
  /\ pc' = [pc EXCEPT ![p] = "send_after"]
  /\ out' = NoOut
  /\ UNCHANGED <<users, qr_codes, clock, loc>>

\* the receiver's INSERT throws (store failure): transferTx rolls back and
\* rethrows, the handler's catch answers 500
SendTxCreditFail(p) ==
  /\ pc[p] = "send_credit"
  /\ txn.owner = p
  /\ user_points' = Rollback(txn.rows)
  /\ txn' = NoTxn
  /\ Reply(p, InternalError("send"))
  /\ UNCHANGED <<users, qr_codes, clock>>

\* balances after, read once transferTx has returned
SendReply(p) ==
  /\ pc[p] = "send_after"
  /\ Reply(p, [op |-> "send", status |-> 201, error |-> "",
               fromUserId |-> loc[p].ucode, toUserId |-> loc[p].rcode,
               points |-> loc[p].pts,
               senderBalanceAfter |-> getEffectiveBalance(PointsSeenBy(p), loc[p].user),
               receiverBalanceAfter |-> getEffectiveBalance(PointsSeenBy(p), loc[p].rid)])
  /\ UNCHANGED <<users, user_points, qr_codes, clock, txn>>

\* ------------------------------------------------------ POST /api/qr/scan
NoQr == [id |-> NULL, code |-> "", points |-> 0, createdAt |-> 0,
         redeemedByUserId |-> NULL, redeemedAt |-> NULL]

SelectQrAny(tbl, code) == IF tbl = << >> THEN NoQr ELSE tbl[1]

\* SELECT id, code, points, redeemedByUserId, redeemedAt FROM qr_codes WHERE code = ?
SelectQrByCode(tbl, code) ==
  IF \E i \in DOMAIN tbl : tbl[i].code = code
  THEN tbl[CHOOSE i \in DOMAIN tbl : tbl[i].code = code]
  ELSE NoQr

\* SELECT redeemedByUserId FROM qr_codes WHERE id = ?
SelectQrById(tbl, id) == IF id \in DOMAIN tbl THEN tbl[id] ELSE NoQr

\* variant of the UPDATE without the row's id in its WHERE clause
UpdateRedeemedAll(tbl, userId, at, id) ==
  [i \in DOMAIN tbl |->
     IF tbl[i].redeemedByUserId = NULL
     THEN [tbl[i] EXCEPT !.redeemedByUserId = userId, !.redeemedAt = at]
     ELSE tbl[i]]

\* variant of the UPDATE that sets one column
UpdateRedeemedByOnly(tbl, userId, at, id) ==
  [i \in DOMAIN tbl |->
     IF tbl[i].id = id /\ tbl[i].redeemedByUserId = NULL
     THEN [tbl[i] EXCEPT !.redeemedByUserId = userId]
     ELSE tbl[i]]

\* UPDATE qr_codes SET redeemedByUserId = ?, redeemedAt = ?
\*  WHERE id = ? AND redeemedByUserId IS NULL
UpdateRedeemed(tbl, userId, at, id) ==
  [i \in DOMAIN tbl |->
     IF tbl[i].id = id /\ tbl[i].redeemedByUserId = NULL
     THEN [tbl[i] EXCEPT !.redeemedByUserId = userId, !.redeemedAt = at]
     ELSE tbl[i]]

\* validation and the lookup of the user named by uid, before scanTx
ScanStart(p, code, uid) ==
  /\ pc[p] = "idle"
  /\ LET qrCode   == Trim(StringOrEmpty(code))
         userCode == Trim(StringOrEmpty(uid))
     IN
     IF qrCode = "" THEN Reply(p, Fail("scan", 400, "code is required"))
     ELSE IF userCode = "" THEN Reply(p, Fail("scan", 400, "uid is required"))
     ELSE
       LET user == SelectUserByCode(userCode) IN
       IF user = NoUser
       THEN Reply(p, Fail("scan", 404, "user not found for given uid"))
       ELSE
         /\ Reserved + 1 <= MaxLedger
         /\ pc' = [pc EXCEPT ![p] = "scan_tx"]
         /\ loc' = [loc EXCEPT ![p] =
                      [NoLoc EXCEPT !.user = user.id, !.ucode = user.userCode,
                                    !.code = qrCode]]
         /\ out' = NoOut
  /\ UNCHANGED <<users, user_points, qr_codes, clock, txn>>

\* POST /scan as a caller reaches it: the route has no authRequired, the
\* handler never reads req.user; the account comes from uid in the body
ScanRequest(p, caller, code, uid) == ScanStart(p, code, uid)

\* scanTx from "mark redeemed" to the check that it was updated; qr is the row
\* the lookup returned
ScanMark(p, qr) ==
  LET tbl     == UpdateRedeemed(qr_codes, loc[p].user, now, qr.id)
      updated == SelectQrById(tbl, qr.id)
  IN
  IF updated.redeemedByUserId = NULL
  THEN /\ Reply(p, Fail("scan", 409, "qr already scanned"))
       /\ UNCHANGED txn
  ELSE /\ txn' = [owner |-> p, rows |-> << >>, qr |-> tbl]
       /\ pc' = [pc EXCEPT ![p] = "scan_grant"]
       /\ loc' = [loc EXCEPT ![p] = [@ EXCEPT !.qr = qr.id, !.pts = qr.points]]
       /\ out' = NoOut

\* scanTx: BEGIN, the lookup of the QR row, the two early returns, the UPDATE
ScanTxClaim(p) ==
  /\ pc[p] = "scan_tx"
  /\ txn.owner = 0
  /\ LET qr == SelectQrByCode(qr_codes, loc[p].code) IN
     IF qr = NoQr
     THEN Reply(p, Fail("scan", 404, "qr not found")) /\ UNCHANGED txn
     ELSE IF qr.redeemedByUserId # NULL
     THEN Reply(p, Fail("scan", 409, "qr already scanned")) /\ UNCHANGED txn
     ELSE ScanMark(p, qr)
  /\ UNCHANGED <<users, user_points, qr_codes, clock>>

ScanGrantRowFive(l) == PointsRow(l.user, 5, Reason("QR ", l.code, " redeemed"), now)

\* "give points": the row inserted for the scanning user
ScanGrantRow(l) == PointsRow(l.user, l.pts, Reason("QR ", l.code, " redeemed"), now)

\* scanTx: the INSERT, the total, COMMIT and the 200
ScanTxGrant(p) ==
  /\ pc[p] = "scan_grant"
  /\ txn.owner = p
  /\ LET rows == txn.rows \o <<ScanGrantRow(loc[p])>> IN
     /\ user_points' = Commit(rows)
     /\ qr_codes' = CommitQr(txn.qr)
     /\ Reply(p, [op |-> "scan", status |-> 200, error |-> "",
                  uid |-> loc[p].ucode, code |-> loc[p].code,
                  pointsAdded |-> loc[p].pts,
                  totalPointsDb |-> getDbPointsTotal(user_points \o rows, loc[p].user)])
  /\ txn' = NoTxn
  /\ UNCHANGED <<users, clock>>

\* the INSERT throws (store failure): scanTx rolls back, the catch answers 500
ScanTxGrantFail(p) ==
  /\ pc[p] = "scan_grant"
  /\ txn.owner = p
  /\ user_points' = Rollback(txn.rows)
  /\ qr_codes' = RollbackQr(txn.qr)
  /\ txn' = NoTxn
  /\ Reply(p, InternalError("scan"))
  /\ UNCHANGED <<users, clock>>

\* ------------------------------------------------------- POST /api/qr/add
\* A request body {code, codes, items, points}; an absent array is << >>, an
\* item is {code, points}.
AddBody(code, codes, items, points) ==
  [code |-> code, codes |-> codes, items |-> items, points |-> points]

PositiveIntegerOrFraction(num) == num.t \in {"num", "frac"} /\ num.n > 0
PositiveInteger(num) == num.t = "num" /\ num.n > 0

RECURSIVE ItemsToInsert(_)
\* items mode: an item with a blank code or without positive integer points is skipped
ItemsToInsert(items) ==
  IF items = << >> THEN << >>
  ELSE LET it == Head(items)
           c  == Trim(StringOrEmpty(it.code))
           pt == ToNumber(it.points)
       IN (IF c = "" \/ ~PositiveInteger(pt) THEN << >>
           ELSE <<[code |-> c, points |-> pt.n]>>)
          \o ItemsToInsert(Tail(items))

RECURSIVE CodesToInsert(_, _)
\* codes mode: every code that is not blank, with the one value of the request
CodesToInsert(codes, pts) ==
  IF codes = << >> THEN << >>
  ELSE LET c == Trim(StringOrEmpty(Head(codes))) IN
       (IF c = "" THEN << >> ELSE <<[code |-> c, points |-> pts]>>)
       \o CodesToInsert(Tail(codes), pts)

\* the validation of /add: the rows to insert, or the 400 it answers
AddPlan(body) ==
  IF body.items # << >>
  THEN [error |-> "", toInsert |-> ItemsToInsert(body.items)]
  ELSE IF body.codes # << >>
  THEN IF ~PositiveInteger(ToNumber(body.points))
       THEN [error |-> "points must be a positive integer", toInsert |-> << >>]
       ELSE [error |-> "", toInsert |-> CodesToInsert(body.codes, ToNumber(body.points).n)]
  ELSE IF Truthy(body.code)
  THEN IF Trim(body.code.s) = ""
       THEN [error |-> "code is required", toInsert |-> << >>]
       ELSE IF ~PositiveInteger(ToNumber(body.points))
       THEN [error |-> "points must be a positive integer", toInsert |-> << >>]
       ELSE [error |-> "",
             toInsert |-> <<[code |-> Trim(body.code.s), points |-> ToNumber(body.points).n]>>]
  ELSE [error |-> "Provide either {code, points} OR {codes, points} OR {items:[{code,points}]}",
        toInsert |-> << >>]

\* variants of the INSERT without the UNIQUE constraint's effect
InsertAlways(tbl, row, at) ==
  Append(tbl, [id |-> Len(tbl) + 1, code |-> row.code, points |-> row.points,
               createdAt |-> at, redeemedByUserId |-> NULL, redeemedAt |-> NULL])

InsertOrUpdateValue(tbl, row, at) ==
  IF \E i \in DOMAIN tbl : tbl[i].code = row.code
  THEN [i \in DOMAIN tbl |->
          IF tbl[i].code = row.code THEN [tbl[i] EXCEPT !.points = row.points]
          ELSE tbl[i]]
  ELSE InsertAlways(tbl, row, at)

InsertOrReplace(tbl, row, at) ==
  IF \E i \in DOMAIN tbl : tbl[i].code = row.code
  THEN [i \in DOMAIN tbl |->
          IF tbl[i].code = row.code
          THEN [tbl[i] EXCEPT !.points = row.points, !.createdAt = at,
                              !.redeemedByUserId = NULL, !.redeemedAt = NULL]
          ELSE tbl[i]]
  ELSE InsertAlways(tbl, row, at)

\* INSERT OR IGNORE INTO qr_codes (code, points, createdAt) VALUES (?,?,?):
\* the UNIQUE constraint on code makes it a no-op for a code that exists
InsertOrIgnore(tbl, row, at) ==
  IF \E i \in DOMAIN tbl : tbl[i].code = row.code
  THEN tbl
  ELSE Append(tbl, [id |-> Len(tbl) + 1, code |-> row.code, points |-> row.points,
                    createdAt |-> at, redeemedByUserId |-> NULL, redeemedAt |-> NULL])

RECURSIVE AddTxCountAll(_, _, _)
\* a loop that counts every row as inserted
AddTxCountAll(tbl, toInsert, at) ==
  IF toInsert = << >> THEN [tbl |-> tbl, inserted |-> 0, skipped |-> 0]
  ELSE LET next == InsertOrIgnore(tbl, Head(toInsert), at)
           rest == AddTxCountAll(next, Tail(toInsert), at)
       IN [rest EXCEPT !.inserted = @ + 1]

RECURSIVE AddTx(_, _, _)
\* tx: the loop over toInsert, counting info.changes
AddTx(tbl, toInsert, at) ==
  IF toInsert = << >> THEN [tbl |-> tbl, inserted |-> 0, skipped |-> 0]
  ELSE LET next == InsertOrIgnore(tbl, Head(toInsert), at)
           rest == AddTx(next, Tail(toInsert), at)
       IN IF Len(next) = Len(tbl) + 1
          THEN [rest EXCEPT !.inserted = @ + 1]
          ELSE [rest EXCEPT !.skipped = @ + 1]

Add(p, body) ==
  /\ pc[p] = "idle"
  /\ LET plan == AddPlan(body) IN
     IF plan.error # ""
     THEN Reply(p, Fail("add", 400, plan.error)) /\ UNCHANGED qr_codes
     ELSE IF plan.toInsert = << >>
     THEN Reply(p, Fail("add", 400, "No valid codes to insert")) /\ UNCHANGED qr_codes
     ELSE
       LET result == AddTx(qr_codes, plan.toInsert, now) IN
       /\ txn.owner = 0
       /\ Len(result.tbl) <= MaxCodes
       /\ qr_codes' = result.tbl
       /\ Reply(p, [op |-> "add", status |-> 201, error |-> "",
                    inserted |-> result.inserted, skipped |-> result.skipped,
                    requested |-> Len(plan.toInsert)])
  /\ UNCHANGED <<users, user_points, clock, txn>>

\* ------------------------------------------------------- GET /api/points
\* the user named by a transfer reason, in the new and the old format
extractOtherUserCode(reason) ==
  IF reason.prefix \in {"SEND_TO:", "RECEIVE_FROM:", "SEND to ", "RECEIVED from "}
  THEN reason.arg \o reason.suffix
  ELSE ""

\* the full name of the user of that code, "" (null) when there is none
getUserNameByCode(userCode) ==
  IF userCode = "" THEN ""
  ELSE LET u == SelectUserByCode(userCode) IN
       IF u = NoUser THEN ""
       ELSE IF u.lastName = "" THEN u.firstName
       ELSE u.firstName \o " " \o u.lastName

\* the readable text of a history row: the points, the phrase, the other user
\* (the name, or the code when no user has it, or null when there is no code)
buildHistoryText(row) ==
  LET pts       == row.points
      absPts    == IF pts < 0 THEN -pts ELSE pts
      otherCode == extractOtherUserCode(row.reason)
      other     == IF otherCode = "" THEN "null"
                   ELSE IF getUserNameByCode(otherCode) # ""
                        THEN getUserNameByCode(otherCode)
                        ELSE otherCode
  IN
  IF pts > 0 /\ row.reason.prefix \in {"RECEIVE_FROM:", "RECEIVED from "}
  THEN <<absPts, "reward points receive from", other>>
  ELSE IF pts < 0 /\ row.reason.prefix \in {"SEND_TO:", "SEND to "}
  THEN <<absPts, "reward points send to", other>>
  ELSE IF pts > 0 /\ row.reason.prefix = "QR:"
  THEN <<absPts, "reward points earned from QR scan", "">>
  ELSE IF pts > 0 THEN <<absPts, "reward points added", "">>
  ELSE IF pts < 0 THEN <<absPts, "reward points deducted", "">>
  ELSE <<0, "0 points", "">>

BeforeOldestFirst(rows, i, j) == i < j

\* a row sorts before another under ORDER BY createdAt DESC, id DESC
Before(rows, i, j) ==
  \/ rows[i].createdAt > rows[j].createdAt
  \/ rows[i].createdAt = rows[j].createdAt /\ i > j

RECURSIVE OrderIds(_, _)
OrderIds(rows, ids) ==
  IF ids = {} THEN << >>
  ELSE LET first == CHOOSE i \in ids : \A j \in ids \ {i} : Before(rows, i, j)
       IN <<first>> \o OrderIds(rows, ids \ {first})

\* SELECT id, points, reason, createdAt FROM user_points WHERE userId = ?
\*  ORDER BY createdAt DESC, id DESC, mapped to {id, createdAt, text}
SelectHistory(rows, dbUserId) ==
  LET ids == OrderIds(rows, {i \in DOMAIN rows : rows[i].userId = dbUserId})
  IN [k \in DOMAIN ids |->
        [id |-> ids[k], createdAt |-> rows[ids[k]].createdAt,
         text |-> buildHistoryText(rows[ids[k]])]]

Get(p, u) ==
  /\ pc[p] = "idle"
  /\ LET dbUserId == Field(JwtPayload(u), "id")
         userCode == Field(JwtPayload(u), "userCode")
         dbTotal  == getDbPointsTotal(PointsSeenBy(p), dbUserId)
     IN Reply(p, [op |-> "get", status |-> 200, error |-> "",
                  userId |-> userCode,
                  totalPoints |-> BASE_POINTS + dbTotal,
                  history |-> SelectHistory(PointsSeenBy(p), dbUserId)])
  /\ UNCHANGED <<users, user_points, qr_codes, clock, txn>>

\* ------------------------------------------------- POST /api/auth/signup
\* A signup body; an absent field is "".
SignupBody(firstName, email, password, city) ==
  [firstName |-> firstName, lastName |-> "", email |-> email, password |-> password,
   residentialAddress |-> "address", phoneNumber |-> "phone", city |-> city]

\* SELECT ... FROM users WHERE email = ?
SelectUserByEmail(email) ==
  IF \E i \in DOMAIN users : users[i].email = email
  THEN users[CHOOSE i \in DOMAIN users : users[i].email = email]
  ELSE NoUser

\* the payload jwt.sign is given: {id, code, email, role}
SignedPayload(row) == [id |-> row.id, code |-> row.userCode, role |-> "user"]

\* the checks of the body and the lookup of the email, up to the INSERT
SignupStart(p, body) ==
  /\ pc[p] = "idle"
  /\ IF \/ body.firstName = "" \/ body.email = "" \/ body.password = ""
        \/ body.residentialAddress = "" \/ body.phoneNumber = "" \/ body.city = ""
     THEN Reply(p, Fail("signup", 400,
            "firstName, email, password, residentialAddress, phoneNumber, city required"))
     ELSE IF SelectUserByEmail(body.email) # NoUser
     THEN Reply(p, Fail("signup", 409, "email already registered"))
     ELSE
       /\ Len(users) + Cardinality({q \in Procs : pc[q] = "signup_ins"}) < MaxAccounts
       /\ pc' = [pc EXCEPT ![p] = "signup_ins"]
       /\ loc' = [loc EXCEPT ![p] = body]
       /\ out' = NoOut
  /\ UNCHANGED <<users, user_points, qr_codes, clock, txn>>

\* an INSERT that ignores the UNIQUE constraints
InsertUserUnchecked(tbl, row) ==
  [error |-> "", tbl |-> Append(tbl, [row EXCEPT !.id = Len(tbl) + 1])]

\* INSERT INTO users (...): userCode and email are UNIQUE; the statement
\* throws and writes nothing when a row has either
InsertUser(tbl, row) ==
  IF \E i \in DOMAIN tbl : tbl[i].userCode = row.userCode
  THEN [error |-> "UNIQUE constraint failed: users.userCode", tbl |-> tbl]
  ELSE IF \E i \in DOMAIN tbl : tbl[i].email = row.email
  THEN [error |-> "UNIQUE constraint failed: users.email", tbl |-> tbl]
  ELSE [error |-> "", tbl |-> Append(tbl, [row EXCEPT !.id = Len(tbl) + 1])]

\* makeUserCode() gave userCode; the INSERT, then the token.  The handler has
\* no try/catch: a throwing INSERT ends in the default handler's 500.
SignupInsert(p, userCode) ==
  /\ pc[p] = "signup_ins"
  /\ txn.owner = 0
  /\ LET row == [id |-> NULL, userCode |-> userCode,
                 firstName |-> loc[p].firstName, lastName |-> loc[p].lastName,
                 email |-> loc[p].email, passwordHash |-> HashSync(loc[p].password)]
         res == InsertUser(users, row)
     IN IF res.error # ""
        THEN /\ Reply(p, Fail("signup", 500, res.error))
             /\ UNCHANGED users
        ELSE /\ users' = res.tbl
             /\ Reply(p, [op |-> "signup", status |-> 201, error |-> "",
                          token |-> SignedPayload(res.tbl[Len(res.tbl)])])
  /\ UNCHANGED <<user_points, qr_codes, clock, txn>>

\* -------------------------------------------------- POST /api/auth/login
Login(p, email, password) ==
  /\ pc[p] = "idle"
  /\ IF email = "" \/ password = ""
     THEN Reply(p, Fail("login", 400, "email & password required"))
     ELSE LET user == SelectUserByEmail(email) IN
          IF user = NoUser THEN Reply(p, Fail("login", 401, "invalid credentials"))
          ELSE IF ~CompareSync(password, user.passwordHash)
          THEN Reply(p, Fail("login", 401, "invalid credentials"))
          ELSE Reply(p, [op |-> "login", status |-> 200, error |-> "",
                         token |-> SignedPayload(user)])
  /\ UNCHANGED <<users, user_points, qr_codes, clock, txn>>

\* ------------------------------------------------------ request inputs
TokenCodes   == {"QR1", "QR2"}
SendPoints   == {JNum(30), JNum(50), JNum(0), JFrac(2)}
UidInputs    ==
  {JStr(UserCodeOf(i)) : i \in 1 .. NumUsers + 1}
  \cup {JStr(PadLeft(UserCodeOf(NumUsers))), JUndef}
CodeInputs   == {JStr(c) : c \in TokenCodes} \cup {JUndef}
AddBodies ==
  {AddBody(JStr(c), << >>, << >>, JNum(5)) : c \in TokenCodes}
  \cup {AddBody(JStr("QR1"), << >>, << >>, JNumStr(5)),
        AddBody(JStr("QR1"), << >>, << >>, JNum(0)),
        AddBody(JStr("QR1"), << >>, << >>, JNum(-5)),
        AddBody(JStr(Blank), << >>, << >>, JNum(5)),
        AddBody(JUndef, << >>, << >>, JNum(5)),
        AddBody(JUndef, <<JStr("QR1"), JStr("QR2")>>, << >>, JNum(5)),
        AddBody(JUndef, <<JStr("QR2"), JStr("QR2")>>, << >>, JNum(5)),
        AddBody(JUndef, <<JStr(Blank)>>, << >>, JNum(5)),
        AddBody(JUndef, <<JStr("QR1")>>, << >>, JUndef),
        AddBody(JUndef, << >>, <<[code |-> JStr("QR2"), points |-> JNum(5)],
                                 [code |-> JStr("QR1"), points |-> JNum(5)]>>, JUndef),
        AddBody(JUndef, << >>, <<[code |-> JStr("QR1"), points |-> JFrac(2)]>>, JUndef),
        AddBody(JUndef, << >>, <<[code |-> JStr("QR1"), points |-> JNum(0)],
                                 [code |-> JStr("QR2"), points |-> JNum(5)]>>, JUndef)}

\* A request is served by the first free slot: the slots are interchangeable.
Free(p) == pc[p] = "idle" /\ \A q \in Procs : q < p => pc[q] # "idle"

\* ------------------------------------- scanTx read and written apart
\* The same statements of scanTx under a store that lets another writer commit
\* between the lookup of the QR row and the UPDATE (no serialisation of the
\* transaction's read with its write).
ScanRead(p) ==
  /\ pc[p] = "scan_tx"
  /\ LET qr == SelectQrByCode(qr_codes, loc[p].code) IN
     IF qr = NoQr
     THEN Reply(p, Fail("scan", 404, "qr not found"))
     ELSE IF qr.redeemedByUserId # NULL
     THEN Reply(p, Fail("scan", 409, "qr already scanned"))
     ELSE /\ pc' = [pc EXCEPT ![p] = "scan_upd"]
          /\ loc' = [loc EXCEPT ![p] = [@ EXCEPT !.qr = qr.id, !.pts = qr.points]]
          /\ out' = NoOut
  /\ UNCHANGED <<users, user_points, qr_codes, clock, txn>>

ScanWrite(p) ==
  /\ pc[p] = "scan_upd"
  /\ txn.owner = 0
  /\ ScanMark(p, [NoQr EXCEPT !.id = loc[p].qr, !.code = loc[p].code, !.points = loc[p].pts])
  /\ UNCHANGED <<users, user_points, qr_codes, clock>>

\* ------------------------- POST /send as kept in qr.routes.js (older revision)
\* The balance is the sum of the rows alone, the reasons are in the old format,
\* and the 400 carries no balance.
OldSendStart(p, u, points, uid) ==
  /\ pc[p] = "idle"
  /\ LET senderDbId == Field(JwtPayload(u), "id")
         senderCode == Field(JwtPayload(u), "userCode")
     IN
     IF ~IsInteger(points) \/ points.n <= 0
     THEN Reply(p, Fail("send", 400, "points must be a positive integer"))
     ELSE IF ~Truthy(uid) \/ uid.t # "str"
     THEN Reply(p, Fail("send", 400, "uid (receiver userId) is required"))
     ELSE
       LET receiver == SelectUserByCode(Trim(uid.s)) IN
       IF receiver = NoUser
       THEN Reply(p, Fail("send", 404, "receiver not found for given uid"))
       ELSE IF receiver.id = senderDbId
       THEN Reply(p, Fail("send", 400, "cannot send points to yourself"))
       ELSE
         LET senderBalance == getDbPointsTotal(PointsSeenBy(p), senderDbId) IN
         IF senderBalance < points.n
         THEN Reply(p, Fail("send", 400, "insufficient points"))
         ELSE
           /\ Reserved + 2 <= MaxLedger
           /\ pc' = [pc EXCEPT ![p] = "old_tx"]
           /\ loc' = [loc EXCEPT ![p] =
                        [NoLoc EXCEPT !.user = senderDbId, !.ucode = senderCode,
                                      !.rid = receiver.id, !.rcode = receiver.userCode,
                                      !.pts = points.n, !.bal = senderBalance]]
           /\ out' = NoOut
  /\ UNCHANGED <<users, user_points, qr_codes, clock, txn>>

OldSendTxDebit(p) ==
  /\ pc[p] = "old_tx"
  /\ txn.owner = 0
  /\ txn' = [owner |-> p, qr |-> qr_codes,
             rows |-> <<PointsRow(loc[p].user, -loc[p].pts,
                                  Reason("SEND to ", loc[p].rcode, ""), now)>>]
  /\ pc' = [pc EXCEPT ![p] = "old_credit"]
  /\ out' = NoOut
  /\ UNCHANGED <<users, user_points, qr_codes, clock, loc>>

OldSendTxCredit(p) ==
  /\ pc[p] = "old_credit"
  /\ txn.owner = p
  /\ user_points' =
       Commit(txn.rows \o <<PointsRow(loc[p].rid, loc[p].pts,
                                      Reason("RECEIVED from ", loc[p].ucode, ""), now)>>)
  /\ txn' = NoTxn
  /\ pc' = [pc EXCEPT ![p] = "old_after"]
  /\ out' = NoOut
  /\ UNCHANGED <<users, qr_codes, clock, loc>>

OldSendReply(p) ==
  /\ pc[p] = "old_after"
  /\ Reply(p, [op |-> "send", status |-> 201, error |-> "",
               fromUserId |-> loc[p].ucode, toUserId |-> loc[p].rcode,
               points |-> loc[p].pts,
               senderBalanceAfter |-> getDbPointsTotal(PointsSeenBy(p), loc[p].user),
               receiverBalanceAfter |-> getDbPointsTotal(PointsSeenBy(p), loc[p].rid)])
  /\ UNCHANGED <<users, user_points, qr_codes, clock, txn>>

\* ------------------------------------------------------------------ Next
\* A step that answers is followed by the answer leaving the server; out is
\* what the client sees, no handler reads it.
Quiet == out = NoOut

Sent ==
  /\ out # NoOut
  /\ out' = NoOut
  /\ UNCHANGED <<users, user_points, qr_codes, clock, txn, pc, loc>>

\* the steps every specification below has
Serve ==
  \/ Sent
  \/ \E p \in Procs, body \in AddBodies : Quiet /\ Free(p) /\ Add(p, body)
  \/ \E p \in Procs, c \in CodeInputs, uid \in UidInputs : Quiet /\ Free(p) /\ ScanStart(p, c, uid)
  \/ \E p \in Procs : Quiet /\ ScanTxGrant(p)
  \/ \E p \in Procs, u \in 1 .. NumUsers, pts \in SendPoints, uid \in UidInputs :
       Quiet /\ Free(p) /\ SendStart(p, u, pts, uid)
  \/ \E p \in Procs : Quiet /\ SendTxDebit(p)
  \/ \E p \in Procs : Quiet /\ SendTxCredit(p)
  \/ \E p \in Procs : Quiet /\ SendReply(p)
  \/ \E p \in Procs, u \in 1 .. NumUsers : Quiet /\ Free(p) /\ Get(p, u)

\* the routes of points.routes.js and qr.routes.js on a working store, whose
\* transactions are serialised
Next ==
  \/ Serve
  \/ \E p \in Procs : Quiet /\ ScanTxClaim(p)

Spec == Init /\ [][Next]_vars

\* the same with a store that may fail the last INSERT of a transaction
NextFault ==
  \/ Next
  \/ \E p \in Procs : Quiet /\ SendTxCreditFail(p)
  \/ \E p \in Procs : Quiet /\ ScanTxGrantFail(p)

SpecFault == Init /\ [][NextFault]_vars

\* the same with the read and the write of scanTx not serialised
NextStmt ==
  \/ Serve
  \/ \E p \in Procs : Quiet /\ ScanRead(p)
  \/ \E p \in Procs : Quiet /\ ScanWrite(p)

SpecStmt == Init /\ [][NextStmt]_vars

\* the same with the older /send of qr.routes.js served as well
NextOld ==
  \/ Next
  \/ \E p \in Procs, u \in 1 .. NumUsers, pts \in SendPoints, uid \in UidInputs :
       Quiet /\ Free(p) /\ OldSendStart(p, u, pts, uid)
  \/ \E p \in Procs : Quiet /\ OldSendTxDebit(p)
  \/ \E p \in Procs : Quiet /\ OldSendTxCredit(p)
  \/ \E p \in Procs : Quiet /\ OldSendReply(p)

SpecOld == Init /\ [][NextOld]_vars

\* the same with time passing between the statements (now() of db.js) and with
\* tokens of different values; the requests are the well-formed ones
Tick ==
  /\ clock < MaxClock
  /\ clock' = clock + 1
  /\ UNCHANGED <<users, user_points, qr_codes, txn, pc, loc, out>>

TokenBodies ==
  {AddBody(JStr("QR1"), << >>, << >>, JNum(5)),
   AddBody(JStr("QR1"), << >>, << >>, JNum(7)),
   AddBody(JStr("QR2"), << >>, << >>, JNum(7)),
   AddBody(JUndef, <<JStr("QR1"), JStr("QR2")>>, << >>, JNum(5)),
   AddBody(JUndef, << >>, <<[code |-> JStr("QR2"), points |-> JNum(7)],
                            [code |-> JStr("QR1"), points |-> JNum(5)]>>, JUndef),
   AddBody(JUndef, << >>, <<[code |-> JStr("QR1"), points |-> JNum(7)],
                            [code |-> JStr("QR1"), points |-> JNum(5)]>>, JUndef)}

TokenUids == {JStr(UserCodeOf(i)) : i \in 1 .. NumUsers + 1}

NextTokens ==
  \/ Sent
  \/ Quiet /\ Tick
  \/ \E p \in Procs, body \in TokenBodies : Quiet /\ Free(p) /\ Add(p, body)
  \/ \E p \in Procs, c \in TokenCodes, uid \in TokenUids :
       Quiet /\ Free(p) /\ ScanStart(p, JStr(c), uid)
  \/ \E p \in Procs : Quiet /\ ScanTxClaim(p)
  \/ \E p \in Procs : Quiet /\ ScanTxGrant(p)
  \/ \E p \in Procs : Quiet /\ ScanTxGrantFail(p)
  \/ \E p \in Procs, u \in 1 .. NumUsers, uid \in TokenUids :
       Quiet /\ Free(p) /\ SendStart(p, u, JNum(30), uid)
  \/ \E p \in Procs : Quiet /\ SendTxDebit(p)
  \/ \E p \in Procs : Quiet /\ SendTxCredit(p)
  \/ \E p \in Procs : Quiet /\ SendReply(p)
  \/ \E p \in Procs, u \in 1 .. NumUsers : Quiet /\ Free(p) /\ Get(p, u)

SpecTokens == Init /\ [][NextTokens]_vars

\* the requests of the walk-through of the specification: one token QR1 worth
\* 5, redemptions of it, transfers of 20 and of 1000, balance queries
ScenarioBody   == AddBody(JStr("QR1"), << >>, << >>, JNum(5))
ScenarioPoints == {JNum(20), JNum(1000)}
ScenarioUids   == {JStr(UserCodeOf(i)) : i \in 1 .. NumUsers}

NextScenario ==
  \/ Sent
  \/ \E p \in Procs : Quiet /\ Free(p) /\ Add(p, ScenarioBody)
  \/ \E p \in Procs, uid \in ScenarioUids : Quiet /\ Free(p) /\ ScanStart(p, JStr("QR1"), uid)
  \/ \E p \in Procs : Quiet /\ ScanTxClaim(p)
  \/ \E p \in Procs : Quiet /\ ScanTxGrant(p)
  \/ \E p \in Procs, u \in 1 .. NumUsers, pts \in ScenarioPoints, uid \in ScenarioUids :
       Quiet /\ Free(p) /\ SendStart(p, u, pts, uid)
  \/ \E p \in Procs : Quiet /\ SendTxDebit(p)
  \/ \E p \in Procs : Quiet /\ SendTxCredit(p)
  \/ \E p \in Procs : Quiet /\ SendReply(p)
  \/ \E p \in Procs, u \in 1 .. NumUsers : Quiet /\ Free(p) /\ Get(p, u)

SpecScenario == Init /\ [][NextScenario]_vars

\* signups, logins and the lookups of a uid, on the seeded users table
SignupEmails == {EmailOf(i) : i \in {1} \cup (NumUsers + 1 .. MaxAccounts)}
SignupBodies ==
  {SignupBody("New", e, "secret", "city") : e \in SignupEmails}
  \cup {SignupBody("", EmailOf(MaxAccounts), "secret", "city"),
        SignupBody("New", EmailOf(MaxAccounts), "secret", "")}
GeneratedCodes == {UserCodeOf(i) : i \in 1 .. MaxAccounts}
LoginPasswords == {"", "secret", "wrong"}
SignupUids == {JStr(c) : c \in GeneratedCodes}

NextSignup ==
  \/ Sent
  \/ \E p \in Procs, body \in SignupBodies : Quiet /\ Free(p) /\ SignupStart(p, body)
  \/ \E p \in Procs, userCode \in GeneratedCodes : Quiet /\ SignupInsert(p, userCode)
  \/ \E p \in Procs, e \in SignupEmails \cup {""}, pw \in LoginPasswords :
       Quiet /\ Free(p) /\ Login(p, e, pw)
  \/ \E p \in Procs, uid \in SignupUids : Quiet /\ Free(p) /\ ScanStart(p, JStr("QR1"), uid)
  \/ \E p \in Procs : Quiet /\ ScanTxClaim(p)

SpecSignup == Init /\ [][NextSignup]_vars

\* transfers and redemptions among the seeded users and one that signs up
FrameBody == AddBody(JUndef, <<JStr("QR1"), JStr("QR2")>>, << >>, JNum(5))
FrameSignup == SignupBody("New", EmailOf(NumUsers + 1), "secret", "city")
FrameUids == {JStr(UserCodeOf(i)) : i \in 1 .. NumUsers + 1}

NextFrame ==
  \/ Sent
  \/ \E p \in Procs : Quiet /\ Free(p) /\ SignupStart(p, FrameSignup)
  \/ \E p \in Procs : Quiet /\ SignupInsert(p, UserCodeOf(NumUsers + 1))
  \/ \E p \in Procs : Quiet /\ Free(p) /\ Add(p, FrameBody)
  \/ \E p \in Procs, c \in TokenCodes, uid \in FrameUids :
       Quiet /\ Free(p) /\ ScanStart(p, JStr(c), uid)
  \/ \E p \in Procs : Quiet /\ ScanTxClaim(p)
  \/ \E p \in Procs : Quiet /\ ScanTxGrant(p)
  \/ \E p \in Procs, u \in DOMAIN users, uid \in FrameUids :
       Quiet /\ Free(p) /\ SendStart(p, u, JNum(30), uid)
  \/ \E p \in Procs : Quiet /\ SendTxDebit(p)
  \/ \E p \in Procs : Quiet /\ SendTxCredit(p)
  \/ \E p \in Procs : Quiet /\ SendReply(p)

SpecFrame == Init /\ [][NextFrame]_vars

\* ------------------------------------------------ the store's write lock
\* a statement that waits for the lock without a timeout
SendBusyNever(p) ==
  /\ pc[p] = "send_tx"
  /\ txn.owner \notin {0, p}
  /\ FALSE
  /\ UNCHANGED vars

\* A statement that needs the write lock while another connection holds it
\* does not wait for ever: after the connection's busy timeout it throws
\* SQLITE_BUSY, which the handler's catch block answers with a 500.
SendBusy(p) ==
  /\ pc[p] = "send_tx"
  /\ txn.owner \notin {0, p}
  /\ Reply(p, InternalError("send"))
  /\ UNCHANGED <<users, user_points, qr_codes, clock, txn>>

ScanBusy(p) ==
  /\ pc[p] = "scan_tx"
  /\ txn.owner \notin {0, p}
  /\ Reply(p, InternalError("scan"))
  /\ UNCHANGED <<users, user_points, qr_codes, clock, txn>>

AddBusy(p, body) ==
  /\ pc[p] = "idle"
  /\ AddPlan(body).error = "" /\ AddPlan(body).toInsert # << >>
  /\ txn.owner \notin {0, p}
  /\ Reply(p, InternalError("add"))
  /\ UNCHANGED <<users, user_points, qr_codes, clock, txn>>

\* the requests with store failures and lock timeouts, every request running
\* on: a handler's next statement is executed whatever the other requests do
LiveBodies == {AddBody(JStr("QR1"), << >>, << >>, JNum(5)),
               AddBody(JStr("QR1"), << >>, << >>, JNum(0))}
LiveUids == {JStr(UserCodeOf(i)) : i \in 1 .. NumUsers + 1}

\* the steps that continue the handler of request p
Continue(p) ==
  \/ ScanTxClaim(p)
  \/ ScanBusy(p)
  \/ ScanTxGrant(p)
  \/ SendTxDebit(p)
  \/ SendBusy(p)
  \/ SendTxCredit(p)
  \/ SendReply(p)

NextLive ==
  \/ Sent
  \/ \E p \in Procs, body \in LiveBodies : Quiet /\ Free(p) /\ Add(p, body)
  \/ \E p \in Procs, body \in LiveBodies : Quiet /\ Free(p) /\ AddBusy(p, body)
  \/ \E p \in Procs, uid \in LiveUids : Quiet /\ Free(p) /\ ScanStart(p, JStr("QR1"), uid)
  \/ \E p \in Procs, u \in 1 .. NumUsers, uid \in LiveUids :
       Quiet /\ Free(p) /\ SendStart(p, u, JNum(30), uid)
  \/ \E p \in Procs, u \in 1 .. NumUsers : Quiet /\ Free(p) /\ Get(p, u)
  \/ \E p \in Procs : Quiet /\ Continue(p)
  \/ \E p \in Procs : Quiet /\ SendTxCreditFail(p)
  \/ \E p \in Procs : Quiet /\ ScanTxGrantFail(p)

SpecLive ==
  /\ Init /\ [][NextLive]_vars
  /\ WF_vars(Sent)
  /\ \A p \in Procs : SF_vars(Quiet /\ Continue(p))

\* =============================================================== properties
\* The terms of the specification, stated apart from the handlers above.
BaseGrant == 50

RECURSIVE SumOver(_, _)
SumOver(rows, ids) ==
  IF ids = {} THEN 0
  ELSE LET i == CHOOSE k \in ids : TRUE IN rows[i].points + SumOver(rows, ids \ {i})

\* balanceOf(a) over the ledger rows
BalanceOf(rows, a) == BaseGrant + SumOver(rows, {i \in DOMAIN rows : rows[i].userId = a})

TotalBalance(rows) ==
  BaseGrant * NumUsers + SumOver(rows, DOMAIN rows)

Accounts == 1 .. NumUsers

TokenOf(tbl, c) == {i \in DOMAIN tbl : tbl[i].code = c}
IsRedeemed(tbl, c) == \E i \in TokenOf(tbl, c) : tbl[i].redeemedByUserId # NULL
RedeemedBy(tbl, c, a) == \E i \in TokenOf(tbl, c) : tbl[i].redeemedByUserId = a

\* the TOKEN_REDEEM rows of the ledger for code c
RedeemRows(rows, c) ==
  {i \in DOMAIN rows : rows[i].reason.prefix = "QR " /\ rows[i].reason.arg = c}

\* a redemption attempt of request p against code c is in flight
Attempting(p, c) == pc[p] \in {"scan_tx", "scan_upd", "scan_grant"} /\ loc[p].code = c

C2_NoOverdraft == \A a \in Accounts : BalanceOf(user_points, a) >= 0

\* C3: the step that commits a transfer of p points takes exactly p from the
\* sender, gives exactly p to the receiver and leaves the total unchanged
C3_ZeroSum ==
  [][\A p \in Procs :
       (pc[p] = "send_credit" /\ pc'[p] = "send_after")
       => /\ BalanceOf(user_points', loc[p].user) = BalanceOf(user_points, loc[p].user) - loc[p].pts
          /\ BalanceOf(user_points', loc[p].rid) = BalanceOf(user_points, loc[p].rid) + loc[p].pts
          /\ TotalBalance(user_points') = TotalBalance(user_points)
          /\ \A a \in Accounts \ {loc[p].user, loc[p].rid} :
               BalanceOf(user_points', a) = BalanceOf(user_points, a)
    ]_vars

\* a transfer has committed and its handler has not answered yet
C3_Witness == \E p \in Procs : pc[p] = "send_after" /\ Len(user_points) >= 2

\* the two sides of every transfer in the ledger stand next to each other
Paired(rows) ==
  \A i \in DOMAIN rows :
    /\ rows[i].reason.prefix = "SEND_TO:"
       => /\ i + 1 \in DOMAIN rows
          /\ rows[i + 1].reason.prefix = "RECEIVE_FROM:"
          /\ rows[i + 1].points = - rows[i].points
          /\ rows[i + 1].userId = SelectUserByCode(rows[i].reason.arg).id
    /\ rows[i].reason.prefix = "RECEIVE_FROM:"
       => /\ i - 1 \in DOMAIN rows
          /\ rows[i - 1].reason.prefix = "SEND_TO:"

\* C4: when the receiver's append of a transfer fails after the sender's row
\* was written, the answer is a 500 and the ledger is what it was before the
\* transfer; no committed ledger holds one side of a transfer without the other.
C4_TransferAtomic ==
  [][/\ Paired(user_points')
     /\ \A p \in Procs :
          (pc[p] = "send_credit" /\ pc'[p] = "idle")
          => /\ out'.status = 500
             /\ user_points' = user_points
             /\ \A a \in Accounts : BalanceOf(user_points', a) = BalanceOf(user_points, a)
    ]_vars

\* a transfer has been answered 500 after its transaction rolled back
C4_Witness == out.op = "send" /\ out.status = 500 /\ txn = NoTxn

\* the redemption rows of account a for code c, each worth the token's value
GrantsFor(rows, tbl, c, a) ==
  {i \in RedeemRows(rows, c) :
     /\ rows[i].userId = a
     /\ \E k \in TokenOf(tbl, c) : rows[i].points = tbl[k].points}

\* C5: in every committed state a token is redeemed by account a exactly when
\* the ledger holds one redemption row of +value for a and that token (and no
\* other redemption row for it); when the append fails after the claim, the
\* answer is a 500, the claim is undone and the token is unredeemed again.
C5_RedeemAtomic ==
  [][/\ \A c \in TokenCodes :
          /\ \A a \in Accounts :
               Cardinality(GrantsFor(user_points', qr_codes', c, a))
                 = (IF RedeemedBy(qr_codes', c, a) THEN 1 ELSE 0)
          /\ Cardinality(RedeemRows(user_points', c)) <= 1
     /\ \A p \in Procs :
          (pc[p] = "scan_grant" /\ out'.status = 500)
          => /\ ~IsRedeemed(qr_codes', loc[p].code)
             /\ qr_codes' = qr_codes
             /\ user_points' = user_points
    ]_vars

\* a redemption has been answered 500 and its token is unredeemed
C5_Witness ==
  /\ out.op = "scan" /\ out.status = 500
  /\ \E c \in TokenCodes : TokenOf(qr_codes, c) # {} /\ ~IsRedeemed(qr_codes, c)

\* C6: a redemption that looked the token up unredeemed and comes to its
\* conditional write after another redeemer has claimed the token answers 409
\* "qr already scanned", adds no ledger row and leaves the winner in place.
C6_LoserFails ==
  [][\A p \in Procs :
       (/\ pc[p] = "scan_upd"
        /\ IsRedeemed(qr_codes, loc[p].code)
        /\ pc'[p] # pc[p])
       => /\ out'.status = 409
          /\ out'.error = "qr already scanned"
          /\ pc'[p] = "idle"
          /\ user_points' = user_points
          /\ txn'.rows = << >>
          /\ \A a \in Accounts :
               RedeemedBy(qr_codes, loc[p].code, a) => RedeemedBy(txn'.qr, loc[p].code, a)
    ]_vars

\* C7: the balance the transfer check compares the amount with, the balance it
\* reports, the balances a transfer answers and the total the query returns
\* are all the base grant plus the sum of the account's committed ledger rows.
C7_BalanceFromLedger ==
  [][\A p \in Procs :
       /\ \A u \in Accounts :
            /\ Get(p, u) => out'.totalPoints = BalanceOf(user_points, u)
            /\ \A points \in SendPoints, uid \in UidInputs :
                 SendStart(p, u, points, uid)
                 => /\ pc'[p] = "send_tx"
                       => /\ loc'[p].bal = BalanceOf(user_points, u)
                          /\ points.n <= BalanceOf(user_points, u)
                    /\ out'.error = "insufficient points"
                       => /\ out'.senderBalance = BalanceOf(user_points, u)
                          /\ points.n > BalanceOf(user_points, u)
       /\ SendReply(p)
          => /\ out'.senderBalanceAfter = BalanceOf(user_points, loc[p].user)
             /\ out'.receiverBalanceAfter = BalanceOf(user_points, loc[p].rid)
    ]_vars

\* a query answered with a total that the ledger rows moved off the base grant
C7_Witness ==
  /\ out.op = "get" /\ out.totalPoints # BaseGrant
  /\ \E a \in Accounts : out.totalPoints = BalanceOf(user_points, a)

\* the uid names account a (the directory lookup ignores surrounding blanks)
NamesAccount(uid, a) ==
  /\ uid.t = "str"
  /\ uid.s \in {UserCodeOf(a), PadLeft(UserCodeOf(a))}

PositiveAmount(points) == points.t = "num" /\ points.n >= 1

\* C8: every POST /send of the repository with a valid amount and an existing
\* recipient other than the sender answers "insufficient points" exactly when
\* the amount exceeds the base grant plus the sender's ledger sum, and a
\* committed transfer of exactly the balance it was checked against leaves the
\* sender at 0.
C8_InsufficientExactly ==
  [][\A p \in Procs :
       /\ \A u \in Accounts, points \in SendPoints, uid \in UidInputs :
            (/\ SendStart(p, u, points, uid) \/ OldSendStart(p, u, points, uid)
             /\ PositiveAmount(points)
             /\ \E r \in Accounts \ {u} : NamesAccount(uid, r))
            => /\ (out'.error = "insufficient points") <=> (points.n > BalanceOf(user_points, u))
               /\ (pc'[p] \in {"send_tx", "old_tx"}) <=> (points.n <= BalanceOf(user_points, u))
       /\ (pc[p] = "send_credit" /\ pc'[p] = "send_after" /\ loc[p].pts = loc[p].bal)
          => BalanceOf(user_points', loc[p].user) = 0
    ]_vars

\* C9 (as stated): a transfer whose uid names the sender is answered "cannot
\* send points to yourself" for every amount and every balance, and the ledger
\* gets no row.
C9_SelfRejectedAnyAmount ==
  [][\A p \in Procs, u \in Accounts, points \in SendPoints, uid \in UidInputs :
       (SendStart(p, u, points, uid) /\ NamesAccount(uid, u))
       => /\ out'.status = 400 /\ out'.error = "cannot send points to yourself"
          /\ pc'[p] = "idle"
          /\ user_points' = user_points
    ]_vars

\* C9 (amended): a transfer of a positive integer amount whose uid names the
\* sender is answered 400 "cannot send points to yourself" for every balance,
\* sufficient or not, and the ledger gets no row; with another amount the
\* request is rejected too, as an invalid amount, and the ledger gets no row.
C9_SelfRejected ==
  [][\A p \in Procs, u \in Accounts, points \in SendPoints, uid \in UidInputs :
       (SendStart(p, u, points, uid) /\ NamesAccount(uid, u))
       => /\ out'.status = 400
          /\ out'.error = (IF PositiveAmount(points)
                           THEN "cannot send points to yourself"
                           ELSE "points must be a positive integer")
          /\ pc'[p] = "idle"
          /\ user_points' = user_points
    ]_vars

\* a self-transfer was rejected while the ledger already holds transfers, and
\* some account could not have afforded the smallest amount sent
C9_Witness ==
  /\ out.op = "send" /\ out.error = "cannot send points to yourself"
  /\ \E a \in Accounts : BalanceOf(user_points, a) < 30

\* the first precondition of a transfer that the request violates, in the
\* order of the specification
FirstViolated(rows, u, points, uid) ==
  IF ~PositiveAmount(points) THEN "InvalidAmount"
  ELSE IF ~(\E r \in Accounts : NamesAccount(uid, r)) THEN "UnknownRecipient"
  ELSE IF NamesAccount(uid, u) THEN "SelfTransferRejected"
  ELSE IF points.n > BalanceOf(rows, u) THEN "InsufficientBalance"
  ELSE "none"

\* the failure an answer stands for; a uid that is missing or blank and a uid
\* that names nobody are both answers about the recipient
FailureOf(o) ==
  CASE o.error = "points must be a positive integer" /\ o.status = 400 -> "InvalidAmount"
    [] o.error = "uid (receiver userId) is required" /\ o.status = 400 -> "UnknownRecipient"
    [] o.error = "receiver not found for given uid" /\ o.status = 404  -> "UnknownRecipient"
    [] o.error = "cannot send points to yourself" /\ o.status = 400    -> "SelfTransferRejected"
    [] o.error = "insufficient points" /\ o.status = 400               -> "InsufficientBalance"
    [] OTHER -> "none"

\* C10: the answer of POST /api/points/send is the failure of the first
\* violated precondition in the order InvalidAmount, UnknownRecipient,
\* SelfTransferRejected, InsufficientBalance, whatever later preconditions the
\* request violates as well; a request that violates none goes on to the
\* transfer; each failure has an answer no other failure has.
C10_PreconditionOrder ==
  [][\A p \in Procs, u \in Accounts, points \in SendPoints, uid \in UidInputs :
       SendStart(p, u, points, uid)
       => /\ FailureOf(out') = FirstViolated(user_points, u, points, uid)
          /\ (FirstViolated(user_points, u, points, uid) = "none") <=> (pc'[p] = "send_tx")
          /\ (FirstViolated(user_points, u, points, uid) # "none")
             => /\ pc'[p] = "idle" /\ out'.status \in {400, 404}
                /\ user_points' = user_points
    ]_vars

\* an invalid amount sent to oneself was answered as an invalid amount: the
\* request violated the first and the third precondition
C10_Witness ==
  /\ out.op = "send" /\ out.error = "points must be a positive integer"
  /\ user_points # << >>

\* the codes a well-formed issue request names, in the order it names them
RequestedCodes(body) ==
  IF body.items # << >> THEN [i \in DOMAIN body.items |-> body.items[i].code.s]
  ELSE IF body.codes # << >> THEN [i \in DOMAIN body.codes |-> body.codes[i].s]
  ELSE <<body.code.s>>

CodesIn(tbl) == {tbl[i].code : i \in DOMAIN tbl}

UniqueCodes(tbl) == \A i, j \in DOMAIN tbl : tbl[i].code = tbl[j].code => i = j

\* C11: an issue request answers 201 and counts as inserted the distinct codes
\* it names that the registry does not hold yet, and as skipped every other
\* code it names (a code that exists, or a repetition inside the request);
\* the tokens that exist are left as they are; after every step the registry
\* holds at most one token per code.
C11_IdempotentIssue ==
  [][/\ UniqueCodes(qr_codes')
     /\ \A p \in Procs, body \in TokenBodies :
          Add(p, body)
          => LET req   == RequestedCodes(body)
                 fresh == {req[i] : i \in DOMAIN req} \ CodesIn(qr_codes)
             IN /\ out'.status = 201
                /\ out'.requested = Len(req)
                /\ out'.inserted = Cardinality(fresh)
                /\ out'.skipped = Len(req) - Cardinality(fresh)
                /\ CodesIn(qr_codes') = CodesIn(qr_codes) \cup fresh
                /\ \A i \in DOMAIN qr_codes :
                     i \in DOMAIN qr_codes' /\ qr_codes'[i] = qr_codes[i]
    ]_vars

\* an issue request that named only codes that exist was answered: all skipped
C11_Witness ==
  /\ out.op = "add" /\ out.status = 201
  /\ out.inserted = 0 /\ out.skipped >= 1
  /\ qr_codes # << >>

\* C12: a redeemed token is the same row in every later state (redeemer, time
\* of redemption, value, code), whatever is redeemed or issued afterwards; an
\* unredeemed token either stays as it is or becomes redeemed, keeping its
\* code and value; no token leaves the registry.
C12_TokenTerminal ==
  [][\A i \in DOMAIN qr_codes :
       /\ i \in DOMAIN qr_codes'
       /\ qr_codes[i].redeemedByUserId # NULL => qr_codes'[i] = qr_codes[i]
       /\ qr_codes[i].redeemedByUserId = NULL
          => \/ qr_codes'[i] = qr_codes[i]
             \/ /\ qr_codes'[i].redeemedByUserId \in Accounts
                /\ qr_codes'[i].redeemedAt \in 1 .. clock
                /\ qr_codes'[i].code = qr_codes[i].code
                /\ qr_codes'[i].points = qr_codes[i].points
                /\ qr_codes'[i].id = qr_codes[i].id
    ]_vars

\* a code was issued again, with another value, after its token was redeemed
\* at an earlier instant
C12_Witness ==
  /\ out.op = "add" /\ out.status = 201 /\ out.skipped >= 1 /\ out.inserted = 0
  /\ \E i \in DOMAIN qr_codes :
       /\ qr_codes[i].redeemedByUserId # NULL
       /\ qr_codes[i].redeemedAt < clock
       /\ qr_codes[i].points = 7

\* C13: in every state, committed or inside a transaction, every token has
\* redeemedByUserId and redeemedAt both NULL or both set
C13_RedeemedTogether ==
  \A tbl \in {qr_codes, txn.qr} :
    \A i \in DOMAIN tbl :
      (tbl[i].redeemedByUserId = NULL) <=> (tbl[i].redeemedAt = NULL)

\* a token claimed inside a transaction that has not committed yet
C13_Witness ==
  /\ txn.owner # 0
  /\ \E i \in DOMAIN txn.qr :
       /\ txn.qr[i].redeemedByUserId # NULL
       /\ qr_codes[i].redeemedByUserId = NULL
       /\ txn.qr[i].redeemedAt = MaxClock

\* the values of the redeemed tokens of the registry, added up
RedeemedValue(tbl) ==
  SumOver(tbl, {i \in DOMAIN tbl : tbl[i].redeemedByUserId # NULL})

\* C14: in every committed state the balances of all accounts add up to the
\* base grant of every account plus the values of the redeemed tokens
C14_TotalBalance ==
  TotalBalance(user_points) = BaseGrant * NumUsers + RedeemedValue(qr_codes)

\* a token of value 7 is redeemed and a transfer has committed
C14_Witness ==
  /\ \E i \in DOMAIN qr_codes : qr_codes[i].redeemedByUserId # NULL /\ qr_codes[i].points = 7
  /\ \E i \in DOMAIN user_points : user_points[i].reason.prefix = "SEND_TO:"
  /\ txn = NoTxn

\* C16: the step that commits a redemption by claimant c appends one row to
\* the ledger, for c, of the value the registry holds for the token; c's
\* balance rises by that value, the other balances stay, and the answer
\* reports that value as pointsAdded.
C16_RedeemGrantsValue ==
  [][\A p \in Procs :
       (pc[p] = "scan_grant" /\ pc'[p] = "idle" /\ out'.status = 200)
       => \E k \in TokenOf(qr_codes, loc[p].code) :
            /\ Len(user_points') = Len(user_points) + 1
            /\ SubSeq(user_points', 1, Len(user_points)) = user_points
            /\ user_points'[Len(user_points')].userId = loc[p].user
            /\ user_points'[Len(user_points')].points = qr_codes[k].points
            /\ out'.pointsAdded = qr_codes[k].points
            /\ BalanceOf(user_points', loc[p].user)
                 = BalanceOf(user_points, loc[p].user) + qr_codes[k].points
            /\ \A a \in Accounts \ {loc[p].user} :
                 BalanceOf(user_points', a) = BalanceOf(user_points, a)
    ]_vars

\* a token of value 7 was redeemed by an account whose ledger had rows already
C16_Witness ==
  /\ out.op = "scan" /\ out.status = 200 /\ out.pointsAdded = 7
  /\ Len(user_points) >= 2

\* C17: across every step the committed ledger before the step is a prefix of
\* the committed ledger after it: rows are added at the end, never changed and
\* never removed
C17_AppendOnly ==
  [][/\ Len(user_points) <= Len(user_points')
     /\ \A i \in DOMAIN user_points : user_points'[i] = user_points[i]
    ]_vars

\* a transaction was rolled back while the ledger held rows
C17_Witness ==
  /\ out.status = 500
  /\ Len(user_points) >= 3

IsTransferOut(r) == r.reason.prefix = "SEND_TO:"
IsTransferIn(r)  == r.reason.prefix = "RECEIVE_FROM:"

\* rows i and j are the two rows one transferTx wrote: the receiver's row
\* follows the sender's, at the same instant or later, for the account the
\* sender's row names, with the opposite amount
PairOf(rows, i, j) ==
  /\ IsTransferOut(rows[i]) /\ IsTransferIn(rows[j])
  /\ j = i + 1
  /\ rows[i].points < 0
  /\ rows[j].points = - rows[i].points
  /\ rows[j].createdAt >= rows[i].createdAt
  /\ \E a \in Accounts : UserCodeOf(a) = rows[i].reason.arg /\ rows[j].userId = a

\* C18: in every committed state every sender row of a transfer has exactly
\* one receiver row paired with it and every receiver row exactly one sender row
C18_TransferPairs ==
  \A i \in DOMAIN user_points :
    /\ IsTransferOut(user_points[i])
       => Cardinality({j \in DOMAIN user_points : PairOf(user_points, i, j)}) = 1
    /\ IsTransferIn(user_points[i])
       => Cardinality({k \in DOMAIN user_points : PairOf(user_points, k, i)}) = 1

\* a transfer has committed, and a later one failed at the receiver's row
C18_Witness ==
  /\ out.op = "send" /\ out.status = 500
  /\ Cardinality({i \in DOMAIN user_points : IsTransferOut(user_points[i])}) >= 1

\* C19: a redemption of a token that is already redeemed is answered 409 "qr
\* already scanned" and the answer carries the redeemedAt of the token
C19_CarriesRedeemedAt ==
  [][\A p \in Procs :
       (pc[p] = "scan_tx" /\ IsRedeemed(qr_codes, loc[p].code) /\ pc'[p] # pc[p])
       => /\ out'.status = 409 /\ out'.error = "qr already scanned"
          /\ "redeemedAt" \in DOMAIN out'
          /\ \E k \in TokenOf(qr_codes, loc[p].code) : out'.redeemedAt = qr_codes[k].redeemedAt
    ]_vars

\* C20: a redemption of a code the registry does not hold is answered 404 "qr
\* not found"; the registry and the ledger are as before and nothing is left
\* in flight
C20_TokenNotFound ==
  [][\A p \in Procs :
       (pc[p] = "scan_tx" /\ TokenOf(qr_codes, loc[p].code) = {} /\ pc'[p] # pc[p])
       => /\ out'.status = 404 /\ out'.error = "qr not found"
          /\ pc'[p] = "idle"
          /\ qr_codes' = qr_codes
          /\ user_points' = user_points
          /\ txn' = txn
    ]_vars

\* a code that is not in the registry was refused while another token exists
C20_Witness ==
  /\ out.op = "scan" /\ out.status = 404 /\ out.error = "qr not found"
  /\ qr_codes # << >>

\* the accounts and the stages of the walk-through
AccountA == users[1].id
AccountB == users[2].id

\* nothing in the ledger, the token issued with value 5 and unredeemed
Stage0(rows, tbl) ==
  /\ rows = << >>
  /\ \E k \in TokenOf(tbl, "QR1") : tbl[k].points = 5 /\ tbl[k].redeemedByUserId = NULL

\* A has redeemed the token
Stage1(rows, tbl) ==
  /\ Len(rows) = 1
  /\ RedeemedBy(tbl, "QR1", AccountA)
  /\ BalanceOf(rows, AccountA) = 55 /\ BalanceOf(rows, AccountB) = 50

\* and A has transferred 20 to B
Stage2(rows, tbl) ==
  /\ Len(rows) = 3
  /\ RedeemedBy(tbl, "QR1", AccountA)
  /\ BalanceOf(rows, AccountA) = 35 /\ BalanceOf(rows, AccountB) = 70

Doing(p, at, a, code) == pc[p] = at /\ loc[p].user = a /\ loc[p].code = code

Sending(p, at, a, b, k) ==
  pc[p] = at /\ loc[p].user = a /\ loc[p].rid = b /\ loc[p].pts = k

\* C15: with empty ledgers A and B have 50 each; from there A's redemption of
\* the token worth 5 succeeds and leaves A at 55; from there A's transfer of
\* 20 to B is accepted, commits and leaves A at 35 and B at 70, which the 201
\* reports; from there B's redemption of the same token is answered 409 "qr
\* already scanned" and A's transfer of 1000 is answered 400 "insufficient
\* points" with balance 35, both leaving ledger and registry as they were.
C15_Scenario ==
  [][\A p \in Procs :
       /\ user_points = << >>
          => BalanceOf(user_points, AccountA) = 50 /\ BalanceOf(user_points, AccountB) = 50
       /\ (Stage0(user_points, qr_codes) /\ Doing(p, "scan_tx", AccountA, "QR1") /\ pc'[p] # pc[p])
          => pc'[p] = "scan_grant"
       /\ (Stage0(user_points, qr_codes) /\ Doing(p, "scan_grant", AccountA, "QR1") /\ pc'[p] # pc[p])
          => /\ out'.status = 200 /\ out'.pointsAdded = 5
             /\ Stage1(user_points', qr_codes')
       /\ (Stage1(user_points, qr_codes)
           /\ SendStart(p, AccountA, JNum(20), JStr(UserCodeOf(AccountB))))
          => Sending(p, "send_tx", AccountA, AccountB, 20)'
       /\ (Stage1(user_points, qr_codes) /\ Sending(p, "send_tx", AccountA, AccountB, 20)
           /\ pc'[p] # pc[p])
          => pc'[p] = "send_credit" /\ user_points' = user_points
       /\ (Stage1(user_points, qr_codes) /\ Sending(p, "send_credit", AccountA, AccountB, 20)
           /\ pc'[p] # pc[p])
          => pc'[p] = "send_after" /\ Stage2(user_points', qr_codes')
       /\ (Stage2(user_points, qr_codes) /\ Sending(p, "send_after", AccountA, AccountB, 20)
           /\ pc'[p] # pc[p])
          => /\ out'.status = 201
             /\ out'.senderBalanceAfter = 35 /\ out'.receiverBalanceAfter = 70
       /\ (Stage2(user_points, qr_codes)
           /\ ScanStart(p, JStr("QR1"), JStr(UserCodeOf(AccountB))))
          => Doing(p, "scan_tx", AccountB, "QR1")'
       /\ (Stage2(user_points, qr_codes) /\ Doing(p, "scan_tx", AccountB, "QR1") /\ pc'[p] # pc[p])
          => /\ out'.status = 409 /\ out'.error = "qr already scanned"
             /\ pc'[p] = "idle"
             /\ user_points' = user_points /\ qr_codes' = qr_codes
       /\ (Stage2(user_points, qr_codes)
           /\ SendStart(p, AccountA, JNum(1000), JStr(UserCodeOf(AccountB))))
          => /\ out'.status = 400 /\ out'.error = "insufficient points"
             /\ out'.senderBalance = 35
             /\ pc'[p] = "idle"
             /\ user_points' = user_points /\ qr_codes' = qr_codes
    ]_vars

\* the end of the walk-through: A at 35, B at 70, and the transfer of 1000
\* refused with balance 35
C15_Witness ==
  /\ Stage2(user_points, qr_codes)
  /\ out.op = "send" /\ out.error = "insufficient points" /\ out.senderBalance = 35
  /\ \A p \in Procs : pc[p] = "idle"

\* C21: the answer of a successful redemption reports the token's value as the
\* points earned and, as the new total, the claimant's balance after the
\* redemption: the base grant plus the claimant's ledger sum with the new row
C21_RedeemReportsBalance ==
  [][\A p \in Procs :
       (pc[p] = "scan_grant" /\ pc'[p] = "idle" /\ out'.status = 200)
       => /\ \E k \in TokenOf(qr_codes, loc[p].code) : out'.pointsAdded = qr_codes[k].points
          /\ out'.totalPointsDb = BalanceOf(user_points', loc[p].user)
    ]_vars

\* C22: the 201 of a transfer names the sender by its public id and the
\* receiver by its public id, states the amount, and reports the balances of
\* both after the transfer
C22_TransferAnswer ==
  [][\A p \in Procs :
       (pc[p] = "send_after" /\ pc'[p] = "idle")
       => /\ out'.status = 201
          /\ out'.fromUserId = UserCodeOf(loc[p].user)
          /\ out'.toUserId = UserCodeOf(loc[p].rid)
          /\ out'.points = loc[p].pts
          /\ out'.senderBalanceAfter = BalanceOf(user_points, loc[p].user)
          /\ out'.receiverBalanceAfter = BalanceOf(user_points, loc[p].rid)
    ]_vars

\* C23: in every committed ledger the sender's row of a transfer names the
\* receiver's public id and the receiver's row names the sender's public id
C23_Counterparties ==
  \A i \in DOMAIN user_points :
    /\ IsTransferOut(user_points[i])
       => /\ i + 1 \in DOMAIN user_points
          /\ user_points[i].reason.arg = UserCodeOf(user_points[i + 1].userId)
    /\ IsTransferIn(user_points[i])
       => /\ i - 1 \in DOMAIN user_points
          /\ user_points[i].reason.arg = UserCodeOf(user_points[i - 1].userId)

\* C24: a redemption or transfer that is answered with a failure leaves the
\* committed ledger and the token registry as they were, and leaves no
\* transaction open; the committed tables change only in the step that
\* commits a redemption, a transfer or an issue.
C24_FailureChangesNothing ==
  [][/\ (out' # NoOut /\ out'.op \in {"scan", "send"} /\ out'.status \notin {200, 201})
        => /\ user_points' = user_points
           /\ qr_codes' = qr_codes
           /\ txn' = NoTxn \/ txn' = txn
           /\ \A p \in Procs : pc'[p] # pc[p] => pc'[p] = "idle" /\ txn'.owner # p
     /\ (user_points' # user_points \/ qr_codes' # qr_codes)
        => \/ out'.op = "scan" /\ out'.status = 200
           \/ out'.op = "add" /\ out'.status = 201
           \/ \E p \in Procs : pc[p] = "send_credit" /\ pc'[p] = "send_after"
    ]_vars

\* a redemption failed after it had claimed the token, with rows in the ledger
C24_Witness ==
  /\ out.op = "scan" /\ out.status = 500
  /\ user_points # << >>
  /\ \E c \in TokenCodes : TokenOf(qr_codes, c) # {} /\ ~IsRedeemed(qr_codes, c)

\* who may call: an account holding a token from login, or nobody (NULL)
Callers == Accounts \cup {NULL}

\* C25: a redemption is carried out for the account the caller is
\* authenticated as, and for no other
C25_RedeemForCallerOnly ==
  [][\A p \in Procs, caller \in Callers, code \in CodeInputs, uid \in UidInputs :
       (ScanRequest(p, caller, code, uid) /\ pc'[p] = "scan_tx")
       => loc'[p].user = caller
    ]_vars

\* C26: a balance query answered while a transfer or a redemption is inside
\* its transaction reports the committed ledger only: the total is the base
\* grant plus the committed rows of the account, the history lists exactly
\* the committed rows of the account, and what it is computed from holds no
\* half of a transfer.
C26_ReadsCommitted ==
  [][\A p \in Procs, u \in Accounts :
       Get(p, u)
       => /\ out'.totalPoints = BalanceOf(user_points, u)
          /\ {out'.history[i].id : i \in DOMAIN out'.history}
               = {i \in DOMAIN user_points : user_points[i].userId = u}
          /\ Paired(PointsSeenBy(p))
          /\ \A c \in TokenCodes :
               Cardinality(RedeemRows(PointsSeenBy(p), c))
                 = (IF IsRedeemed(QrSeenBy(p), c) THEN 1 ELSE 0)
    ]_vars

\* a query was answered while a transfer had written the sender's row only
C26_Witness ==
  /\ out.op = "get"
  /\ txn.owner # 0 /\ txn.rows # << >>
  /\ \E p \in Procs : pc[p] = "send_credit"

\* C27: every "insufficient points" answer of a POST /send of the repository
\* reports the balance that was checked, the base grant plus the sender's
\* ledger sum when the check was made
C27_ReportsCheckedBalance ==
  [][\A p \in Procs, u \in Accounts, points \in SendPoints, uid \in UidInputs :
       (/\ SendStart(p, u, points, uid) \/ OldSendStart(p, u, points, uid)
        /\ out'.error = "insufficient points")
       => /\ "senderBalance" \in DOMAIN out'
          /\ out'.senderBalance = BalanceOf(user_points, u)
    ]_vars

\* C28: no row of the ledger, committed or written inside a transaction, has
\* points 0; a transfer of 0 points is refused with 400 before anything is
\* written
C28_NoZeroDelta ==
  [][/\ \A i \in DOMAIN user_points' : user_points'[i].points # 0
     /\ \A i \in DOMAIN txn'.rows : txn'.rows[i].points # 0
     /\ \A p \in Procs, u \in Accounts, uid \in UidInputs :
          SendStart(p, u, JNum(0), uid)
          => /\ out'.status = 400 /\ out'.error = "points must be a positive integer"
             /\ pc'[p] = "idle"
             /\ user_points' = user_points /\ txn' = txn
    ]_vars

\* a transfer of 0 was refused while the ledger holds a redemption and a transfer
C28_Witness ==
  /\ out.op = "send" /\ out.error = "points must be a positive integer"
  /\ Len(user_points) >= 3

\* the entries (code, value) of an issue request, by its mode
EntriesOf(body) ==
  IF body.items # << >>
  THEN {[code |-> body.items[i].code.s, value |-> body.items[i].points] : i \in DOMAIN body.items}
  ELSE IF body.codes # << >>
  THEN {[code |-> body.codes[i].s, value |-> body.points] : i \in DOMAIN body.codes}
  ELSE {[code |-> body.code.s, value |-> body.points]}

\* a JSON value that stands for a positive integer: the number itself or its
\* decimal text
GoodValue(j) ==
  \/ j.t = "num" /\ j.n >= 1
  \/ j.t = "str" /\ j.n >= 1 /\ j.s = ToString(j.n)

\* C29: every token of the registry has a value that is an integer >= 1, and
\* a token stored by an issue request comes from an entry of the request whose
\* value is a positive integer, with that value, in each of the three modes
C29_TokenValuePositive ==
  [][/\ \A i \in DOMAIN qr_codes' : qr_codes'[i].points \in Nat \ {0}
     /\ \A p \in Procs, body \in AddBodies :
          Add(p, body)
          => \A i \in DOMAIN qr_codes' \ DOMAIN qr_codes :
               \E e \in EntriesOf(body) :
                 /\ e.code = qr_codes'[i].code
                 /\ GoodValue(e.value)
                 /\ e.value.n = qr_codes'[i].points
    ]_vars

\* an issue request was refused for its value while the registry holds tokens
C29_Witness ==
  /\ out.op = "add" /\ out.status = 400
  /\ out.error = "points must be a positive integer"
  /\ qr_codes # << >>

\* C30: the history a query returns for an account lists each committed row
\* of that account once and no other row, a row of higher id (appended later)
\* before every row of lower id, each with its own createdAt
C30_HistoryNewestFirst ==
  [][\A p \in Procs, u \in Accounts :
       Get(p, u)
       => LET h    == out'.history
              mine == {i \in DOMAIN user_points : user_points[i].userId = u}
          IN /\ {h[a].id : a \in DOMAIN h} = mine
             /\ Len(h) = Cardinality(mine)
             /\ \A a, b \in DOMAIN h : a < b => h[a].id > h[b].id
             /\ \A a \in DOMAIN h : h[a].createdAt = user_points[h[a].id].createdAt
    ]_vars

\* a history of rows written at different instants was returned
C30_Witness ==
  /\ out.op = "get"
  /\ Len(out.history) >= 2
  /\ out.history[1].createdAt > out.history[2].createdAt

\* the tag a history item reports, read from its phrase; "" when the phrase
\* is the generic one that names no kind of entry
TagOfItem(item) ==
  CASE item.text[2] = "reward points earned from QR scan" -> "TOKEN_REDEEM"
    [] item.text[2] = "reward points send to"             -> "TRANSFER_OUT"
    [] item.text[2] = "reward points receive from"        -> "TRANSFER_IN"
    [] OTHER                                              -> ""

\* the delta a history item reports: the amount, negative when the phrase
\* says the points left the account
DeltaOfItem(item) ==
  IF item.text[2] \in {"reward points send to", "reward points deducted"}
  THEN - item.text[1]
  ELSE item.text[1]

\* the text names account a: by its public id or by its full name
IdentifiesAccount(text, a) ==
  text \in {UserCodeOf(a), getUserNameByCode(UserCodeOf(a))}

ItemDelta(rows, item) == DeltaOfItem(item) = rows[item.id].points

ItemRedeemTag(rows, item) ==
  rows[item.id].reason.prefix = "QR " => TagOfItem(item) = "TOKEN_REDEEM"

ItemTransferOut(rows, item) ==
  IsTransferOut(rows[item.id])
  => /\ TagOfItem(item) = "TRANSFER_OUT"
     /\ item.id + 1 \in DOMAIN rows
     /\ IdentifiesAccount(item.text[3], rows[item.id + 1].userId)

ItemTransferIn(rows, item) ==
  IsTransferIn(rows[item.id])
  => /\ TagOfItem(item) = "TRANSFER_IN"
     /\ item.id - 1 \in DOMAIN rows
     /\ IdentifiesAccount(item.text[3], rows[item.id - 1].userId)

\* C31: every item of a returned history reports the delta of its row, a
\* redemption row as TOKEN_REDEEM, the sender's row of a transfer as
\* TRANSFER_OUT naming the receiver, and the receiver's row as TRANSFER_IN
\* naming the sender
C31_HistoryExposes ==
  [][\A p \in Procs, u \in Accounts :
       Get(p, u)
       => \A a \in DOMAIN out'.history :
            /\ ItemDelta(user_points, out'.history[a])
            /\ ItemRedeemTag(user_points, out'.history[a])
            /\ ItemTransferOut(user_points, out'.history[a])
            /\ ItemTransferIn(user_points, out'.history[a])
    ]_vars

\* the uid is a text that names no account
NamesNobody(uid) ==
  /\ uid.t = "str" /\ uid.s \notin {"", Blank}
  /\ \A a \in Accounts : ~NamesAccount(uid, a)

\* C32: a redemption whose uid names no account is answered 404 "user not
\* found for given uid" in its first step, whether or not the code names a
\* token: no transaction is begun, and ledger, registry and every request's
\* position are what they were, so an unredeemed token stays unredeemed and
\* open to a later redemption
C32_UnknownClaimant ==
  [][\A p \in Procs, c \in TokenCodes, uid \in UidInputs :
       (NamesNobody(uid) /\ ScanStart(p, JStr(c), uid))
       => /\ out'.op = "scan" /\ out'.status = 404
          /\ out'.error = "user not found for given uid"
          /\ pc' = pc /\ loc' = loc
          /\ txn' = txn /\ txn.owner # p
          /\ user_points' = user_points /\ qr_codes' = qr_codes
          /\ (TokenOf(qr_codes, c) # {} /\ ~IsRedeemed(qr_codes, c))
             => (TokenOf(qr_codes', c) # {} /\ ~IsRedeemed(qr_codes', c))
    ]_vars

\* the 404 for an unknown uid was given while the registry holds an unredeemed
\* token and a redeemed one
C32_Witness ==
  /\ out.op = "scan" /\ out.error = "user not found for given uid"
  /\ \E c \in TokenCodes : TokenOf(qr_codes, c) # {} /\ ~IsRedeemed(qr_codes, c)
  /\ \E c \in TokenCodes : IsRedeemed(qr_codes, c)

\* the entries of an issue request in the order it names them, by its mode
EntrySeq(body) ==
  IF body.items # << >>
  THEN [i \in DOMAIN body.items |->
          [code |-> body.items[i].code, value |-> body.items[i].points]]
  ELSE IF body.codes # << >>
  THEN [i \in DOMAIN body.codes |-> [code |-> body.codes[i], value |-> body.points]]
  ELSE <<[code |-> body.code, value |-> body.points]>>

\* the positions of the valid entries: a code that is not blank, with a
\* positive integer value
ValidAt(body) ==
  {i \in DOMAIN EntrySeq(body) :
     /\ EntrySeq(body)[i].code.t = "str"
     /\ EntrySeq(body)[i].code.s \notin {"", Blank}
     /\ GoodValue(EntrySeq(body)[i].value)}

\* C33: for an issue request answered 201, inserted + skipped is the number
\* of its valid entries, inserted is the number of rows the registry gained,
\* one per code it did not hold, and skipped counts every other valid entry,
\* so a new code named twice in the request is inserted once and skipped once
C33_IssueCounts ==
  [][\A p \in Procs, body \in AddBodies :
       (Add(p, body) /\ out'.status = 201)
       => LET es    == EntrySeq(body)
              valid == ValidAt(body)
              fresh == {es[i].code.s : i \in valid} \ CodesIn(qr_codes)
          IN /\ out'.inserted + out'.skipped = Cardinality(valid)
             /\ out'.inserted = Len(qr_codes') - Len(qr_codes)
             /\ out'.inserted = Cardinality(CodesIn(qr_codes') \ CodesIn(qr_codes))
             /\ out'.inserted = Cardinality(fresh)
             /\ \A c \in fresh :
                  /\ Cardinality(TokenOf(qr_codes', c)) = 1
                  /\ Cardinality({i \in valid : es[i].code.s = c}) = 2
                     /\ Cardinality(fresh) = 1 /\ Cardinality(valid) = 2
                     => out'.inserted = 1 /\ out'.skipped = 1
    ]_vars

\* a request naming one new code twice was answered: one inserted, one skipped
C33_Witness ==
  /\ out.op = "add" /\ out.status = 201
  /\ out.requested = 2 /\ out.inserted = 1 /\ out.skipped = 1
  /\ Len(qr_codes) = 1

\* the rows of the table that carry public identifier c
WithCode(tbl, c) == {i \in DOMAIN tbl : tbl[i].userCode = c}

\* C34: after every step no two rows of users share a userCode, so a uid
\* resolves to at most one account; a signup whose generated userCode is the
\* userCode of an existing row is answered 500 and leaves users unchanged;
\* no step removes a row or changes a row's userCode
C34_UniquePublicId ==
  [][/\ \A c \in GeneratedCodes : Cardinality(WithCode(users', c)) <= 1
     /\ \A i \in DOMAIN users :
          i \in DOMAIN users' /\ users'[i].userCode = users[i].userCode
     /\ \A p \in Procs, userCode \in GeneratedCodes :
          (SignupInsert(p, userCode) /\ WithCode(users, userCode) # {})
          => users' = users /\ out'.status = 500 /\ pc'[p] = "idle"
     /\ \A p \in Procs, uid \in SignupUids :
          (ScanStart(p, JStr("QR1"), uid) /\ pc'[p] = "scan_tx")
          => WithCode(users, uid.s) = {loc'[p].user}
    ]_vars

\* a signup was refused for its userCode after another one created an account
C34_Witness ==
  /\ out.op = "signup" /\ out.status = 500
  /\ out.error = "UNIQUE constraint failed: users.userCode"
  /\ Len(users) > NumUsers

\* request p is inside its handler
Pending(p) == pc[p] # "idle"

\* C35: the handler of every started request returns: with an answer, with
\* no transaction of its own left open, and, when the answer is a failure,
\* with the committed tables as they were before the step that answered; a
\* request inside its handler can always take its next step, whatever the
\* other requests are doing
C35_Completes ==
  /\ \A p \in Procs : Pending(p) ~> ~Pending(p)
  /\ [](\A p \in Procs : (Quiet /\ Pending(p)) => ENABLED (Quiet /\ Continue(p)))
  /\ [][\A p \in Procs :
          (Pending(p) /\ ~Pending(p)')
          => /\ out'.status \in {200, 201, 400, 404, 409, 500}
             /\ txn'.owner # p
             /\ out'.status >= 400
                => /\ user_points' = user_points /\ qr_codes' = qr_codes
                   /\ txn' = NoTxn \/ txn' = txn
       ]_vars

\* a transfer met the write lock of a redemption and was answered 500
C35_Witness ==
  /\ out.op = "send" /\ out.status = 500
  /\ txn.owner # 0 /\ txn.rows = << >>
  /\ \E p \in Procs : pc[p] = "scan_grant"

\* C36: an issue request leaves every token the registry holds as it is, in
\* value, createdAt, redeemedByUserId and redeemedAt, also when it names the
\* token's code with another value, and leaves the ledger and the open
\* transaction untouched
C36_IssueFrame ==
  [][\A p \in Procs, body \in TokenBodies :
       Add(p, body)
       => /\ user_points' = user_points
          /\ txn' = txn
          /\ \A i \in DOMAIN qr_codes :
               /\ i \in DOMAIN qr_codes'
               /\ qr_codes'[i].code = qr_codes[i].code
               /\ qr_codes'[i].points = qr_codes[i].points
               /\ qr_codes'[i].createdAt = qr_codes[i].createdAt
               /\ qr_codes'[i].redeemedByUserId = qr_codes[i].redeemedByUserId
               /\ qr_codes'[i].redeemedAt = qr_codes[i].redeemedAt
    ]_vars

\* QR1 is worth 7 and QR2 is worth 5, one of them redeemed, both issued at an
\* earlier instant, and a request naming two codes was answered "2 skipped":
\* each such request names one of them with the other value
C36_Witness ==
  /\ out.op = "add" /\ out.status = 201
  /\ out.requested = 2 /\ out.skipped = 2
  /\ \E i, j \in DOMAIN qr_codes :
       /\ qr_codes[i].code = "QR1" /\ qr_codes[i].points = 7
       /\ qr_codes[j].code = "QR2" /\ qr_codes[j].points = 5
       /\ qr_codes[i].createdAt < clock /\ qr_codes[j].createdAt < clock
       /\ qr_codes[i].redeemedByUserId # NULL
  /\ user_points # << >>

\* the ids of the accounts of the users table
AccountIds == {users[i].id : i \in DOMAIN users}

\* the rows of the ledger that belong to account a, in order
RowsOf(rows, a) == SelectSeq(rows, LAMBDA r : r.userId = a)

\* account a has the same rows, hence the same balance, before and after
SameLedger(a) ==
  /\ RowsOf(user_points', a) = RowsOf(user_points, a)
  /\ BalanceOf(user_points', a) = BalanceOf(user_points, a)

\* C37: the step that commits a transfer leaves the registry and the ledger
\* of every account other than sender and receiver as they were; the step
\* that commits a redemption leaves every token other than the redeemed one
\* and the ledger of every account other than the claimant as they were; no
\* other step of a transfer or a redemption changes a committed table
C37_Frame ==
  [][\A p \in Procs :
       /\ SendTxCredit(p)
          => /\ qr_codes' = qr_codes
             /\ \A a \in AccountIds \ {loc[p].user, loc[p].rid} : SameLedger(a)
       /\ ScanTxGrant(p)
          => /\ Len(qr_codes') = Len(qr_codes)
             /\ \A i \in DOMAIN qr_codes : i # loc[p].qr => qr_codes'[i] = qr_codes[i]
             /\ \A a \in AccountIds \ {loc[p].user} : SameLedger(a)
       /\ (SendTxDebit(p) \/ SendReply(p) \/ ScanTxClaim(p)
           \/ (pc[p] = "idle" /\ pc'[p] \in {"send_tx", "scan_tx"}))
          => user_points' = user_points /\ qr_codes' = qr_codes
    ]_vars

\* a transfer to the account that signed up was committed while another
\* account holds a redemption and a token is still unredeemed
C37_Witness ==
  /\ out.op = "send" /\ out.status = 201
  /\ Len(users) > NumUsers
  /\ \E i \in DOMAIN user_points :
       user_points[i].userId = NumUsers + 1 /\ IsTransferIn(user_points[i])
  /\ \E c \in TokenCodes : IsRedeemed(qr_codes, c)
  /\ \E c \in TokenCodes : TokenOf(qr_codes, c) # {} /\ ~IsRedeemed(qr_codes, c)

====
